---- MODULE Spec2Model ----
(***************************************************************************)
(* Model of the Config class of src/src/config.ts: the sectioned model     *)
(* text parser (parseBuffer, write, validateMatcher, addConfig) and the    *)
(* keyed accessors (set, get).                                             *)
(*                                                                         *)
(* A JavaScript string is modelled as the sequence of its characters, each *)
(* character a one-character TLA+ string; '' is the empty sequence <<>>.   *)
(* Offsets passed to indexOf/substring/slice are 0-based as in JavaScript. *)
(***************************************************************************)
EXTENDS Integers, Sequences, FiniteSets, TLC

\* ------------------------------------------------------------------------
\* Bounds of the model
\* ------------------------------------------------------------------------

\* Largest number of physical lines of a model text.
MaxLines == 3

\* Largest number of physical lines of a model text on whose Config set()
\* is then called.
MaxSetLines == 2

\* Largest number of set() calls made on a parsed Config.
MaxSets == 1

\* ------------------------------------------------------------------------
\* Class constants (config.ts 33-36)
\* ------------------------------------------------------------------------

DEFAULT_SECTION == <<"d", "e", "f", "a", "u", "l", "t">>

DEFAULT_COMMENT == <<"#">>

DEFAULT_COMMENT_SEM == <<";">>

DEFAULT_MULTI_LINE_SEPARATOR == <<"\\">>

\* The section name write() compares against (config.ts 170).
MATCHERS == <<"m", "a", "t", "c", "h", "e", "r", "s">>

\* ------------------------------------------------------------------------
\* JavaScript string primitives used by config.ts
\* ------------------------------------------------------------------------

\* White space String.prototype.trim removes: space, tab, carriage return and
\* form feed (a line holds no line feed).
WhiteSpace == {" ", "\t", "\r", "\f"}

UpperCase == <<"A", "B", "C", "D", "E", "F", "G", "H", "I", "J", "K", "L", "M", "N", "O", "P", "Q", "R", "S", "T", "U", "V", "W", "X", "Y", "Z">>

LowerCase == <<"a", "b", "c", "d", "e", "f", "g", "h", "i", "j", "k", "l", "m", "n", "o", "p", "q", "r", "s", "t", "u", "v", "w", "x", "y", "z">>

Digits == {"0", "1", "2", "3", "4", "5", "6", "7", "8", "9"}

\* The regular expression class \w: [A-Za-z0-9_].
WordChars == {UpperCase[i] : i \in 1..26} \cup {LowerCase[i] : i \in 1..26} \cup Digits \cup {"_"}

\* s.substring(a, b) / s.slice(a, b) for 0 <= a, b <= s.length.
substring(s, a, b) == SubSeq(s, a + 1, b)

\* s.substring(a) for 0 <= a.
substringFrom(s, a) == SubSeq(s, a + 1, Len(s))

RECURSIVE indexOfFrom(_, _, _)
indexOfFrom(s, sub, i) ==
    IF i + Len(sub) > Len(s) THEN -1
    ELSE IF SubSeq(s, i + 1, i + Len(sub)) = sub THEN i
    ELSE indexOfFrom(s, sub, i + 1)

\* s.indexOf(sub): 0-based offset of the first occurrence, -1 when absent.
indexOf(s, sub) == indexOfFrom(s, sub, 0)

includes(s, sub) == indexOf(s, sub) # -1

startsWith(s, p) == Len(p) <= Len(s) /\ SubSeq(s, 1, Len(p)) = p

endsWith(s, p) == Len(p) <= Len(s) /\ SubSeq(s, Len(s) - Len(p) + 1, Len(s)) = p

RECURSIVE trimStart(_)
trimStart(s) ==
    IF s = <<>> THEN <<>>
    ELSE IF Head(s) \in WhiteSpace THEN trimStart(Tail(s))
    ELSE s

RECURSIVE trimEnd(_)
trimEnd(s) ==
    IF s = <<>> THEN <<>>
    ELSE IF s[Len(s)] \in WhiteSpace THEN trimEnd(SubSeq(s, 1, Len(s) - 1))
    ELSE s

\* s.trim()
trim(s) == trimEnd(trimStart(s))

\* The lower-case letter of each upper-case letter.
LowerOf == [c \in {UpperCase[i] : i \in 1..26} |-> LowerCase[CHOOSE i \in 1..26 : UpperCase[i] = c]]

toLowerChar(c) == IF c \in DOMAIN LowerOf THEN LowerOf[c] ELSE c

\* s.toLowerCase()
toLowerCase(s) == [i \in 1..Len(s) |-> toLowerChar(s[i])]

RECURSIVE split(_, _)
\* s.split(sep) for a non-empty separator.
split(s, sep) ==
    LET i == indexOf(s, sep)
    IN IF i = -1 THEN <<s>>
       ELSE <<substring(s, 0, i)>> \o split(substringFrom(s, i + Len(sep)), sep)

\* (s.match(/c/g) || []).length for a one-character pattern c.
countMatches(s, c) == Cardinality({i \in 1..Len(s) : s[i] = c})

\* End (0-based, exclusive) of the greedy \w+ run that starts at offset i.
RECURSIVE wordEnd(_, _)
wordEnd(s, i) ==
    IF i < Len(s) /\ s[i + 1] \in WordChars THEN wordEnd(s, i + 1) ELSE i

RECURSIVE matchPropsFrom(_, _)
matchPropsFrom(s, i) ==
    IF i + 3 > Len(s) THEN <<>>
    ELSE IF s[i + 1] \in {"r", "p"} /\ s[i + 2] = "." /\ s[i + 3] \in WordChars
         THEN LET e == wordEnd(s, i + 2)
              IN <<substring(s, i, e)>> \o matchPropsFrom(s, e)
         ELSE matchPropsFrom(s, i + 1)

\* matcherStr.match(/[rp]\.\w+/g) || []: the successive non-overlapping
\* leftmost matches, each with a greedy \w+.
matchProps(s) == matchPropsFrom(s, 0)

\* ------------------------------------------------------------------------
\* Errors thrown by the class
\* ------------------------------------------------------------------------

NoError == [kind |-> "none", lineNumber |-> 0, section |-> <<>>, errors |-> <<>>]

\* new Error(`parse the content error : line ${lineNum}`)
ContentError(lineNum) == [kind |-> "parse the content error", lineNumber |-> lineNum, section |-> <<>>, errors |-> <<>>]

\* new Error(`Duplicated section: ${section} at line ${lineNumber}`)
DuplicatedSection(sec, lineNumber) == [kind |-> "Duplicated section", lineNumber |-> lineNumber, section |-> sec, errors |-> <<>>]

\* new Error(`${errors.join(', ')}`)
MatcherError(errors, lineNumber) == [kind |-> "matcher", lineNumber |-> 0, section |-> <<>>, errors |-> errors]

\* new Error('key is empty')
KeyIsEmpty == [kind |-> "key is empty", lineNumber |-> 0, section |-> <<>>, errors |-> <<>>]

\* ------------------------------------------------------------------------
\* The store: data : Map<string, Map<string, string>> (config.ts 38)
\* ------------------------------------------------------------------------

\* new Map(): the constructor's this.data (config.ts 43).
EmptyMap == <<>>

\* addConfig(section, option, value): the store after the call.
addConfig(d, sec, option, value) ==
    LET s == IF sec = <<>> THEN DEFAULT_SECTION ELSE sec
        item == IF s \in DOMAIN d THEN d[s] ELSE EmptyMap
        item2 == [o \in (DOMAIN item) \cup {option} |-> IF o = option THEN value ELSE item[o]]
    IN [x \in (DOMAIN d) \cup {s} |-> IF x = s THEN item2 ELSE d[x]]

validProps == {<<"r", ".", "s", "u", "b">>, <<"r", ".", "o", "b", "j">>, <<"r", ".", "a", "c", "t">>, <<"p", ".", "s", "u", "b">>, <<"p", ".", "o", "b", "j">>, <<"p", ".", "a", "c", "t">>, <<"p", ".", "e", "f", "t">>}

notValidProp(prop) == prop \notin validProps

\* Variant of matcherErrors that reports the first failed rule only.
matcherErrors_firstOnly(matcherStr) ==
    LET invalidProps == SelectSeq(matchProps(matcherStr), notValidProp)
    IN IF Len(invalidProps) > 0 THEN <<[msg |-> "Invalid properties", props |-> invalidProps]>>
       ELSE IF includes(matcherStr, <<".", ".">>) THEN <<[msg |-> "Found extra dots", props |-> <<>>]>>
       ELSE IF endsWith(trim(matcherStr), <<",">>) THEN <<[msg |-> "Unnecessary comma", props |-> <<>>]>>
       ELSE IF countMatches(matcherStr, "(") # countMatches(matcherStr, ")")
       THEN <<[msg |-> "Mismatched parentheses", props |-> <<>>]>>
       ELSE <<>>

\* The errors array validateMatcher builds, in the order it pushes them.
matcherErrors(matcherStr) ==
    LET usedProps == matchProps(matcherStr)
        invalidProps == SelectSeq(usedProps, notValidProp)
        e1 == IF Len(invalidProps) > 0
              THEN <<[msg |-> "Invalid properties", props |-> invalidProps]>> ELSE <<>>
        e2 == IF includes(matcherStr, <<".", ".">>)
              THEN <<[msg |-> "Found extra dots", props |-> <<>>]>> ELSE <<>>
        e3 == IF endsWith(trim(matcherStr), <<",">>)
              THEN <<[msg |-> "Unnecessary comma", props |-> <<>>]>> ELSE <<>>
        openBrackets == countMatches(matcherStr, "(")
        closeBrackets == countMatches(matcherStr, ")")
        e4 == IF openBrackets # closeBrackets
              THEN <<[msg |-> "Mismatched parentheses", props |-> <<>>]>> ELSE <<>>
    IN e1 \o e2 \o e3 \o e4

\* Variant of validateMatcher that never rejects.
validateMatcher_never(matcherStr, lineNumber) == [threw |-> FALSE, err |-> NoError]

\* validateMatcher(matcherStr, lineNumber): whether it throws, and what.
validateMatcher(matcherStr, lineNumber) ==
    LET errors == matcherErrors(matcherStr)
    IN IF Len(errors) > 0
       THEN [threw |-> TRUE, err |-> MatcherError(errors, lineNumber)]
       ELSE [threw |-> FALSE, err |-> NoError]

RECURSIVE lastIndexOfFrom(_, _, _)
lastIndexOfFrom(s, sub, i) ==
    IF i < 0 THEN -1
    ELSE IF SubSeq(s, i + 1, i + Len(sub)) = sub THEN i
    ELSE lastIndexOfFrom(s, sub, i - 1)

\* Variant of write that splits the line on its last `=`.
write_splitOnLast(d, sec, lineNum, line) ==
    LET equalIndex == lastIndexOfFrom(line, <<"=">>, Len(line) - 1)
        key == trim(substring(line, 0, equalIndex))
        value == trim(substringFrom(line, equalIndex + 1))
        v == validateMatcher(value, lineNum)
    IN IF equalIndex = -1
       THEN [threw |-> TRUE, err |-> ContentError(lineNum), data |-> d]
       ELSE IF sec = MATCHERS /\ v.threw
       THEN [threw |-> TRUE, err |-> v.err, data |-> d]
       ELSE [threw |-> FALSE, err |-> NoError, data |-> addConfig(d, sec, key, value)]

\* write(section, lineNum, line): whether it throws, what, and the store after.
write(d, sec, lineNum, line) ==
    LET equalIndex == indexOf(line, <<"=">>)
        key == trim(substring(line, 0, equalIndex))
        value == trim(substringFrom(line, equalIndex + 1))
        v == validateMatcher(value, lineNum)
    IN IF equalIndex = -1
       THEN [threw |-> TRUE, err |-> ContentError(lineNum), data |-> d]
       ELSE IF sec = MATCHERS /\ v.threw
       THEN [threw |-> TRUE, err |-> v.err, data |-> d]
       ELSE [threw |-> FALSE, err |-> NoError, data |-> addConfig(d, sec, key, value)]

\* The (section, option) a qualified key addresses in get().
getSection(key) ==
    LET keys == split(toLowerCase(key), <<":", ":">>)
    IN IF Len(keys) >= 2 THEN keys[1] ELSE DEFAULT_SECTION

getOption(key) ==
    LET keys == split(toLowerCase(key), <<":", ":">>)
    IN IF Len(keys) >= 2 THEN keys[2] ELSE keys[1]

\* get(key)
get(d, key) ==
    LET sec == getSection(key)
        option == getOption(key)
    IN IF sec \in DOMAIN d /\ option \in DOMAIN d[sec] THEN d[sec][option] ELSE <<>>

\* The (section, option) a qualified key addresses in set().
setSection(key) ==
    LET keys == split(toLowerCase(key), <<":", ":">>)
    IN IF Len(keys) >= 2 THEN keys[1] ELSE <<>>

setOption(key) ==
    LET keys == split(toLowerCase(key), <<":", ":">>)
    IN IF Len(keys) >= 2 THEN keys[2] ELSE keys[1]

\* Variant of set that does not lower-case the qualified key.
set_caseSensitive(d, key, value) ==
    LET keys == split(key, <<":", ":">>)
    IN IF key = <<>>
       THEN [threw |-> TRUE, err |-> KeyIsEmpty, data |-> d]
       ELSE IF Len(keys) >= 2
       THEN [threw |-> FALSE, err |-> NoError, data |-> addConfig(d, keys[1], keys[2], value)]
       ELSE [threw |-> FALSE, err |-> NoError, data |-> addConfig(d, <<>>, keys[1], value)]

\* set(key, value): whether it throws, what, and the store after.
set(d, key, value) ==
    IF key = <<>>
    THEN [threw |-> TRUE, err |-> KeyIsEmpty, data |-> d]
    ELSE [threw |-> FALSE, err |-> NoError, data |-> addConfig(d, setSection(key), setOption(key), value)]

\* ------------------------------------------------------------------------
\* parseBuffer
\* ------------------------------------------------------------------------

notEmpty(v) == v # <<>>

\* buf.toString().split('\n').filter((v) => v): the physical lines of the
\* text that are not the empty string (a line of white space is kept).
\* Buffer.from(text).toString() gives the text back, character by character.
filteredLines(t) == SelectSeq(split(t, <<"\n">>), notEmpty)

\* n.slice(0, commentPos) when the comment character occurs in n.
stripComment(n, comment) ==
    LET commentPos == indexOf(n, comment)
    IN IF commentPos > -1 THEN substring(n, 0, commentPos) ELSE n

\* const line = n.trim() of the forEach callback, after both comment cuts.
trimmedLine(n) == trim(stripComment(stripComment(n, DEFAULT_COMMENT), DEFAULT_COMMENT_SEM))

isSectionHeader(line) == startsWith(line, <<"[">>) /\ endsWith(line, <<"]">>)

\* The result of a callback that changes nothing.
unchanged(d, sec, cur, seen) ==
    [threw |-> FALSE, err |-> NoError, data |-> d, section |-> sec,
     currentLine |-> cur, seenSections |-> seen, calls |-> <<>>]

\* Variant of onSectionHeader that makes the new section active before it
\* flushes the pending line.
onSectionHeader_sectionFirst(d, sec, cur, seen, line, lineNumber) ==
    LET same == unchanged(d, sec, cur, seen)
        sec2 == substring(line, 1, Len(line) - 1)
        flush == Len(cur) # 0
        w == write(d, sec2, lineNumber, cur)
        calls == IF flush THEN <<[section |-> sec2, lineNum |-> lineNumber, line |-> cur]>> ELSE <<>>
        d2 == IF flush THEN w.data ELSE d
    IN IF flush /\ w.threw
       THEN [same EXCEPT !.threw = TRUE, !.err = w.err, !.calls = calls]
       ELSE IF sec2 \in seen
       THEN [threw |-> TRUE, err |-> DuplicatedSection(sec2, lineNumber), data |-> d2,
             section |-> sec2, currentLine |-> <<>>, seenSections |-> seen, calls |-> calls]
       ELSE [threw |-> FALSE, err |-> NoError, data |-> d2,
             section |-> sec2, currentLine |-> <<>>, seenSections |-> seen \cup {sec2}, calls |-> calls]

\* The branch of the callback taken on a line of the form [name]
\* (config.ts 136-145). calls lists the arguments of the write() calls made.
onSectionHeader(d, sec, cur, seen, line, lineNumber) ==
    LET same == unchanged(d, sec, cur, seen)
        flush == Len(cur) # 0
        w == write(d, sec, lineNumber - 1, cur)
        calls == IF flush THEN <<[section |-> sec, lineNum |-> lineNumber - 1, line |-> cur]>> ELSE <<>>
        d2 == IF flush THEN w.data ELSE d
        sec2 == substring(line, 1, Len(line) - 1)
    IN IF flush /\ w.threw
       THEN [same EXCEPT !.threw = TRUE, !.err = w.err, !.calls = calls]
       ELSE IF sec2 \in seen
       THEN [threw |-> TRUE, err |-> DuplicatedSection(sec2, lineNumber), data |-> d2,
             section |-> sec2, currentLine |-> <<>>, seenSections |-> seen, calls |-> calls]
       ELSE [threw |-> FALSE, err |-> NoError, data |-> d2,
             section |-> sec2, currentLine |-> <<>>, seenSections |-> seen \cup {sec2}, calls |-> calls]

\* Variant of onDataLine that joins a continued line and its continuation
\* with a space.
onDataLine_spaceJoined(d, sec, cur, seen, line, lineNumber, linesCount) ==
    LET same == unchanged(d, sec, cur, seen)
        continued == endsWith(line, DEFAULT_MULTI_LINE_SEPARATOR)
        sep == IF Len(cur) # 0 THEN <<" ">> ELSE <<>>
        cur2 == IF continued
                THEN cur \o sep \o trim(substring(line, 0, Len(line) - 1))
                ELSE cur \o sep \o line
        shouldWrite == ~continued
        w == write(d, sec, lineNumber, cur2)
        calls == <<[section |-> sec, lineNum |-> lineNumber, line |-> cur2]>>
    IN IF shouldWrite \/ lineNumber = linesCount
       THEN IF w.threw
            THEN [same EXCEPT !.threw = TRUE, !.err = w.err, !.currentLine = cur2, !.calls = calls]
            ELSE [same EXCEPT !.data = w.data, !.currentLine = <<>>, !.calls = calls]
       ELSE [same EXCEPT !.currentLine = cur2]

\* The branch of the callback taken on any other non-blank line
\* (config.ts 146-158).
onDataLine(d, sec, cur, seen, line, lineNumber, linesCount) ==
    LET same == unchanged(d, sec, cur, seen)
        continued == endsWith(line, DEFAULT_MULTI_LINE_SEPARATOR)
        cur2 == IF continued
                THEN cur \o trim(substring(line, 0, Len(line) - 1))
                ELSE cur \o line
        shouldWrite == ~continued
        w == write(d, sec, lineNumber, cur2)
        calls == <<[section |-> sec, lineNum |-> lineNumber, line |-> cur2]>>
    IN IF shouldWrite \/ lineNumber = linesCount
       THEN IF w.threw
            THEN [same EXCEPT !.threw = TRUE, !.err = w.err, !.currentLine = cur2, !.calls = calls]
            ELSE [same EXCEPT !.data = w.data, !.currentLine = <<>>, !.calls = calls]
       ELSE [same EXCEPT !.currentLine = cur2]

\* One call of the forEach callback of parseBuffer on element n at position
\* idx of the filtered lines, from the locals (sec, cur, seen) and the store d.
callback(d, sec, cur, seen, n, idx, linesCount) ==
    LET line == trimmedLine(n)
        lineNumber == idx + 1
    IN IF line = <<>> THEN unchanged(d, sec, cur, seen)
       ELSE IF isSectionHeader(line) THEN onSectionHeader(d, sec, cur, seen, line, lineNumber)
       ELSE onDataLine(d, sec, cur, seen, line, lineNumber, linesCount)

\* ------------------------------------------------------------------------
\* Inputs
\* ------------------------------------------------------------------------

\* Physical lines a model text is made of.
PhysicalLines == {
    \* the empty line
    <<>>,
    \* `#c`
    <<"#", "c">>,
    \* `[p]`
    <<"[", "p", "]">>,
    \* `[matchers]`
    <<"[", "m", "a", "t", "c", "h", "e", "r", "s", "]">>,
    \* `a = 1 \`
    <<"a", " ", "=", " ", "1", " ", "\\">>,
    \* `+ 2`
    <<"+", " ", "2">>,
    \* `K=v`
    <<"K", "=", "v">>,
    \* `m = (r.sub == p.eft, 1)`
    <<"m", " ", "=", " ", "(", "r", ".", "s", "u", "b", " ", "=", "=", " ", "p", ".", "e", "f", "t", ",", " ", "1", ")">>,
    \* `m = r.foo..`
    <<"m", " ", "=", " ", "r", ".", "f", "o", "o", ".", ".">>,
    \* `m = (p.sub,`
    <<"m", " ", "=", " ", "(", "p", ".", "s", "u", "b", ",">>,
    \* `m = xr.sub_1)(`
    <<"m", " ", "=", " ", "x", "r", ".", "s", "u", "b", "_", "1", ")", "(">>,
    \* `a=3;c`
    <<"a", "=", "3", ";", "c">> }

RECURSIVE joinLines(_)
\* The text whose physical lines are ls: the lines separated by '\n'.
joinLines(ls) ==
    IF Len(ls) = 0 THEN <<>>
    ELSE IF Len(ls) = 1 THEN ls[1]
    ELSE ls[1] \o <<"\n">> \o joinLines(Tail(ls))

\* Physical lines of the model texts on whose Config set() is then called.
SetPhysicalLines == {
    \* `[p]`
    <<"[", "p", "]">>,
    \* `[matchers]`
    <<"[", "m", "a", "t", "c", "h", "e", "r", "s", "]">>,
    \* `K=v`
    <<"K", "=", "v">>,
    \* `m = (r.sub == p.eft, 1)`
    <<"m", " ", "=", " ", "(", "r", ".", "s", "u", "b", " ", "=", "=", " ", "p", ".", "e", "f", "t", ",", " ", "1", ")">>,
    \* `m = r.foo..`
    <<"m", " ", "=", " ", "r", ".", "f", "o", "o", ".", ".">>,
    \* `a=3;c`
    <<"a", "=", "3", ";", "c">> }

\* The texts of at most maxLines physical lines drawn from lineSet.
TextsUpTo(lineSet, maxLines) == {joinLines(ls) : ls \in UNION {[1..n -> lineSet] : n \in 0..maxLines}}

\* Qualified keys and values passed to set().
SetKeys == {
    <<>>,
    <<"k">>,
    <<":", ":", "k">>,
    <<"p", ":", ":", "a">>,
    <<"P", ":", ":", "A">>,
    <<"m", "a", "t", "c", "h", "e", "r", "s", ":", ":", "m">>,
    <<"a", ":", ":", "b", ":", ":", "c">> }

SetValues == {<<"v">>, <<"r", ".", "f", "o", "o">>}

\* ------------------------------------------------------------------------
\* State
\* ------------------------------------------------------------------------

VARIABLES
    text,          \* the text given to newConfigFromText
    lines,         \* parseBuffer local: the non-empty physical lines of text
    pc,            \* "parseBuffer": in the forEach loop; "ready": the Config
                   \* was returned; "threw": newConfigFromText threw
    index,         \* forEach position (0-based) of the next callback
    section,       \* parseBuffer local
    currentLine,   \* parseBuffer local: the pending logical line
    seenSections,  \* parseBuffer local
    data,          \* this.data
    err,           \* the Error thrown by the last operation, NoError if none
    writeCalls,    \* arguments of the write() calls made so far, in order
    nsets,         \* number of set() calls made
    lastSet        \* arguments of the last set() call and the store before it

vars == <<text, lines, pc, index, section, currentLine, seenSections, data, err, writeCalls, nsets, lastSet>>

NoSet == [key |-> <<>>, value |-> <<>>, before |-> EmptyMap, called |-> FALSE]

\* The state in which newConfigFromText(t) enters the forEach loop of
\* parseBuffer: a new Config with an empty store, the text split into lines.
Constructed(t) ==
    /\ text = t
    /\ lines = filteredLines(t)
    /\ pc = "parseBuffer"
    /\ index = 0
    /\ section = <<>>
    /\ currentLine = <<>>
    /\ seenSections = {}
    /\ data = EmptyMap
    /\ err = NoError
    /\ writeCalls = <<>>
    /\ nsets = 0
    /\ lastSet = NoSet

Init == \E t \in TextsUpTo(PhysicalLines, MaxLines) : Constructed(t)

InitSet == \E t \in TextsUpTo(SetPhysicalLines, MaxSetLines) : Constructed(t)

\* One iteration of lines.forEach in parseBuffer.
ParseLine ==
    /\ pc = "parseBuffer"
    /\ index < Len(lines)
    /\ LET r == callback(data, section, currentLine, seenSections, lines[index + 1], index, Len(lines))
       IN /\ pc' = IF r.threw THEN "threw" ELSE "parseBuffer"
          /\ index' = IF r.threw THEN index ELSE index + 1
          /\ section' = r.section
          /\ currentLine' = r.currentLine
          /\ seenSections' = r.seenSections
          /\ data' = r.data
          /\ err' = r.err
          /\ writeCalls' = writeCalls \o r.calls
    /\ UNCHANGED <<text, lines, nsets, lastSet>>

\* forEach is over: parseBuffer returns and newConfigFromText returns the Config.
ParseReturn ==
    /\ pc = "parseBuffer"
    /\ index = Len(lines)
    /\ pc' = "ready"
    /\ UNCHANGED <<text, lines, index, section, currentLine, seenSections, data, err, writeCalls, nsets, lastSet>>

\* config.set(key, value) on a Config that newConfigFromText returned.
Set ==
    /\ pc = "ready"
    /\ nsets < MaxSets
    /\ \E key \in SetKeys, value \in SetValues :
          LET r == set(data, key, value)
          IN /\ data' = r.data
             /\ err' = r.err
             /\ lastSet' = [key |-> key, value |-> value, before |-> data, called |-> TRUE]
    /\ nsets' = nsets + 1
    /\ UNCHANGED <<text, lines, pc, index, section, currentLine, seenSections, writeCalls>>

\* newConfigFromText alone.
Next == ParseLine \/ ParseReturn

Spec == Init /\ [][Next]_vars

\* newConfigFromText, then set() calls on the Config it returned.
NextSet == ParseLine \/ ParseReturn \/ Set

SpecSet == InitSet /\ [][NextSet]_vars

\* ------------------------------------------------------------------------
\* Vocabulary of the properties, stated without the parser's own operators
\* ------------------------------------------------------------------------

Blank(c) == c \in {" ", "\t", "\r", "\f"}

\* s without its leading and trailing white space: from the first character
\* that is not white space to the last one.
Trimmed(s) ==
    LET a == CHOOSE i \in 1..(Len(s) + 1) :
                 (\A k \in 1..(i - 1) : Blank(s[k])) /\ (i = Len(s) + 1 \/ ~Blank(s[i]))
        b == CHOOSE i \in 0..Len(s) :
                 (\A k \in (i + 1)..Len(s) : Blank(s[k])) /\ (i = 0 \/ ~Blank(s[i]))
    IN SubSeq(s, a, b)

HasEq(line) == \E i \in 1..Len(line) : line[i] = "="

\* Position (1-based) of the first `=` of a line that has one.
FirstEq(line) == CHOOSE i \in 1..Len(line) : line[i] = "=" /\ \A j \in 1..(i - 1) : line[j] # "="

\* Key and value of a logical line: the trimmed text before / after its first `=`.
KeyOf(line) == Trimmed(SubSeq(line, 1, FirstEq(line) - 1))

ValueOf(line) == Trimmed(SubSeq(line, FirstEq(line) + 1, Len(line)))

\* The section a line written under section name sec is stored in.
SectionOrDefault(sec) == IF sec = <<>> THEN <<"d", "e", "f", "a", "u", "l", "t">> ELSE sec

\* The qualified key section::key.
Qualified(sec, key) == sec \o <<":", ":">> \o key

\* d holds value under (sec, key).
Holds(d, sec, key, value) == sec \in DOMAIN d /\ key \in DOMAIN d[sec] /\ d[sec][key] = value

Whitelist == {<<"r", ".", "s", "u", "b">>, <<"r", ".", "o", "b", "j">>, <<"r", ".", "a", "c", "t">>, <<"p", ".", "s", "u", "b">>, <<"p", ".", "o", "b", "j">>, <<"p", ".", "a", "c", "t">>, <<"p", ".", "e", "f", "t">>}

IsWord(c) == c \in WordChars

\* v contains a token [rp].<word>, the word taken as long as possible, that is
\* not whitelisted.
HasInvalidProperty(v) ==
    \E i \in 1..(Len(v) - 2) :
        /\ v[i] \in {"r", "p"}
        /\ v[i + 1] = "."
        /\ IsWord(v[i + 2])
        /\ LET j == CHOOSE e \in (i + 2)..Len(v) :
                        (\A k \in (i + 2)..e : IsWord(v[k])) /\ (e = Len(v) \/ ~IsWord(v[e + 1]))
           IN SubSeq(v, i, j) \notin Whitelist

HasExtraDots(v) == \E i \in 1..(Len(v) - 1) : v[i] = "." /\ v[i + 1] = "."

HasTrailingComma(v) ==
    \E i \in 1..Len(v) : v[i] = "," /\ \A k \in (i + 1)..Len(v) : Blank(v[k])

HasMismatchedParentheses(v) ==
    Cardinality({i \in 1..Len(v) : v[i] = "("}) # Cardinality({i \in 1..Len(v) : v[i] = ")"})

\* The matcher validation rules a value violates.
ViolatedRules(v) ==
    (IF HasInvalidProperty(v) THEN {"Invalid properties"} ELSE {})
    \cup (IF HasExtraDots(v) THEN {"Found extra dots"} ELSE {})
    \cup (IF HasTrailingComma(v) THEN {"Unnecessary comma"} ELSE {})
    \cup (IF HasMismatchedParentheses(v) THEN {"Mismatched parentheses"} ELSE {})

\* Every value the store holds under `matchers` satisfies the validation rules.
MatchersValid(d) ==
    MATCHERS \in DOMAIN d => \A k \in DOMAIN d[MATCHERS] : ViolatedRules(d[MATCHERS][k]) = {}

\* The step made a write() call; its arguments.
WriteCalled == Len(writeCalls') = Len(writeCalls) + 1

TheCall == writeCalls'[Len(writeCalls')]

\* The filtered line at forEach position i (1-based), comment-stripped and trimmed.
LineAt(i) == trimmedLine(lines[i])

IsHeaderAt(i) == LineAt(i) # <<>> /\ LineAt(i)[1] = "[" /\ LineAt(i)[Len(LineAt(i))] = "]"

IsDataAt(i) == LineAt(i) # <<>> /\ ~IsHeaderAt(i)

IsContinuedAt(i) == IsDataAt(i) /\ LineAt(i)[Len(LineAt(i))] = "\\"

\* What a data line contributes to the logical line: itself, or, when it ends
\* in a backslash, the trimmed text before the backslash.
BodyAt(i) ==
    IF IsContinuedAt(i) THEN Trimmed(SubSeq(LineAt(i), 1, Len(LineAt(i)) - 1)) ELSE LineAt(i)

\* 1-based number, among the lines of the text, of the k-th non-empty one.
PhysicalLineOf(k) ==
    LET raw == split(text, <<"\n">>)
    IN CHOOSE q \in 1..Len(raw) : raw[q] # <<>> /\ Cardinality({r \in 1..q : raw[r] # <<>>}) = k

\* ------------------------------------------------------------------------
\* Properties
\* ------------------------------------------------------------------------

\* The write() call, among calls k.. of the parse, that wrote last under the
\* section and key of call k.
LastWriteOf(k) ==
    LET c == writeCalls[k]
        same == {j \in DOMAIN writeCalls :
                    /\ SectionOrDefault(writeCalls[j].section) = SectionOrDefault(c.section)
                    /\ KeyOf(writeCalls[j].line) = KeyOf(c.line)}
    IN CHOOSE j \in same : \A i \in same : i <= j

\* C1: after newConfigFromText(text) returned, every key written in the text,
\* queried with get('section::key'), returns exactly the last value written
\* for that key in that section.
C1_RoundTrip ==
    pc = "ready" =>
        \A k \in DOMAIN writeCalls :
            get(data, Qualified(SectionOrDefault(writeCalls[k].section), KeyOf(writeCalls[k].line)))
                = ValueOf(writeCalls[LastWriteOf(k)].line)

toUpperChar(c) ==
    IF \E i \in 1..26 : LowerCase[i] = c
    THEN UpperCase[CHOOSE i \in 1..26 : LowerCase[i] = c]
    ELSE c

\* Letter-case variants of a key: as written, all lower case, all upper case.
CaseVariants(key) ==
    {key, [i \in 1..Len(key) |-> toLowerChar(key[i])], [i \in 1..Len(key) |-> toUpperChar(key[i])]}

\* C5: for a key written in the model text in any letter case, get called
\* with any letter-case variant of that key returns the value written for it.
C5_CaseInsensitiveRead ==
    pc = "ready" =>
        \A k \in DOMAIN writeCalls :
            k = LastWriteOf(k) =>
                \A variant \in CaseVariants(KeyOf(writeCalls[k].line)) :
                    get(data, Qualified(SectionOrDefault(writeCalls[k].section), variant))
                        = ValueOf(writeCalls[k].line)

\* C3: a second occurrence of a section header fails with an error that names
\* the section and cites the 1-based number, in the input text, of the line
\* of the second header.
C3_DuplicateSectionLine ==
    err.kind = "Duplicated section" =>
        /\ <<"[">> \o err.section \o <<"]">> = LineAt(index + 1)
        /\ err.lineNumber = PhysicalLineOf(index + 1)

\* C7: when parsing finishes without error the pending buffer is empty.
C7_NoPendingAtEnd ==
    pc = "ready" => currentLine = <<>>

\* C2: a key=value logical line written while the active section is exactly
\* `matchers` is rejected if and only if its value violates a validation rule
\* (a non-whitelisted [rp].<word> token, `..`, a trailing comma, unequal
\* parenthesis counts); when rejected, one error is raised that carries every
\* violated rule, and the store is left as it was; otherwise the key is stored.
C2_MatcherValidation ==
    [][(WriteCalled /\ TheCall.section = MATCHERS /\ HasEq(TheCall.line)) =>
          LET v == ValueOf(TheCall.line)
              rules == ViolatedRules(v)
          IN /\ (err'.kind = "matcher") <=> (rules # {})
             /\ rules # {} =>
                   /\ pc' = "threw"
                   /\ {err'.errors[i].msg : i \in DOMAIN err'.errors} = rules
                   /\ data' = data
             /\ rules = {} => Holds(data', MATCHERS, KeyOf(TheCall.line), v)]_vars

\* A matcher line was rejected for more than one rule at once.
C2_Witness ==
    /\ pc = "threw"
    /\ err.kind = "matcher"
    /\ Len(err.errors) >= 2
    /\ writeCalls[Len(writeCalls)].section = MATCHERS

\* C6: every flushed logical line is split on its first `=` into the trimmed
\* key before it and the trimmed value after it (later `=` stay in the
\* value); a flushed line with no `=` fails the parse with `parse the content
\* error : line <n>`, n the line number of the flush, and stores nothing.
C6_SplitOnFirstEq ==
    [][WriteCalled =>
          IF HasEq(TheCall.line)
          THEN /\ err'.kind # "parse the content error"
               /\ err'.kind # "matcher" =>
                     Holds(data', SectionOrDefault(TheCall.section), KeyOf(TheCall.line), ValueOf(TheCall.line))
          ELSE /\ pc' = "threw"
               /\ err'.kind = "parse the content error"
               /\ err'.lineNumber = TheCall.lineNum
               /\ data' = data]_vars

\* A stored value keeps an `=` that came after the first one of its line.
C6_Witness ==
    /\ pc = "ready"
    /\ \E sec \in DOMAIN data : \E k \in DOMAIN data[sec] : HasEq(data[sec][k])

SectionsQueried == {<<>>, <<"d", "e", "f", "a", "u", "l", "t">>, <<"p">>, <<"a">>, <<"m", "a", "t", "c", "h", "e", "r", "s">>}

OptionsQueried == {<<>>, <<"k">>, <<"a">>, <<"b">>, <<"m">>}

\* The (section, key) pair a qualified key names: the text before its first
\* `::` and the text between that and the next `::`, in lower case; the
\* default section when it has no `::`.
PairOf(k) == <<getSection(k), getOption(k)>>

\* The last set(k, v) call: get(k) returns v and get of every other
\* (section, key) pair returns what it returned before.
SetThenGet ==
    /\ get(data, lastSet.key) = lastSet.value
    /\ \A pair \in (SectionsQueried \X OptionsQueried) \ {PairOf(lastSet.key)} :
          get(data, Qualified(pair[1], pair[2])) = get(lastSet.before, Qualified(pair[1], pair[2]))

\* The last set call had an empty key: it failed and left the store unchanged.
SetEmptyKeyFails == err.kind = "key is empty" /\ data = lastSet.before

\* C9 as stated: for every non-empty qualified key k, an empty section part
\* included, set(k, v) followed by get(k) returns v and get of any other
\* pair is unchanged; set with an empty key fails and changes nothing.
C9_SetGetAnyKey ==
    lastSet.called => IF lastSet.key = <<>> THEN SetEmptyKeyFails ELSE SetThenGet

\* C9, amended: for every non-empty qualified key k with no `section::` part
\* or with a non-empty section part, and every non-empty value v, set(k, v)
\* followed by get(k) returns v and get of any other (section, key) pair
\* returns what it returned before; set with an empty key fails and leaves
\* the store unchanged.
C9_SetGetNamedSection ==
    lastSet.called =>
        IF lastSet.key = <<>> THEN SetEmptyKeyFails
        ELSE (lastSet.key[1] # ":" \/ Len(lastSet.key) < 2 \/ lastSet.key[2] # ":") => SetThenGet

\* set stored a new value under a key qualified by a section, written in
\* upper case, and get returns it.
C9_Witness ==
    /\ lastSet.called
    /\ lastSet.key = <<"P", ":", ":", "A">>
    /\ get(lastSet.before, lastSet.key) # lastSet.value
    /\ get(data, lastSet.key) = lastSet.value
    /\ lastSet.before # EmptyMap

\* C10 as stated: after a text parse followed by set calls, every value
\* stored under `matchers` satisfies the matcher validation rules.
C10_MatchersValidAfterSet ==
    pc = "ready" => MatchersValid(data)

\* C10, amended: after a text parse and before any set call, every value
\* stored under `matchers` satisfies the matcher validation rules.
C10_MatchersValidAfterParse ==
    nsets = 0 => MatchersValid(data)

\* A parse stored a matcher that has [rp].<word> tokens and parentheses.
C10_Witness ==
    /\ pc = "ready"
    /\ nsets = 0
    /\ MATCHERS \in DOMAIN data
    /\ \E k \in DOMAIN data[MATCHERS] :
          \E i \in 1..Len(data[MATCHERS][k]) : data[MATCHERS][k][i] = "("

\* C8: when a section header is reached while a continuation is pending, the
\* pending logical line is written first, into the section active before the
\* header and with the line number one less than the header's; unless that
\* write fails, the buffer is empty when the new section is active and the new
\* section's entries are untouched.
C8_FlushBeforeHeader ==
    [][(pc = "parseBuffer" /\ index < Len(lines) /\ IsHeaderAt(index + 1) /\ currentLine # <<>>) =>
          /\ writeCalls' = Append(writeCalls, [section |-> section, lineNum |-> (index + 1) - 1, line |-> currentLine])
          /\ IF err'.kind \in {"parse the content error", "matcher"}
             THEN section' = section /\ data' = data
             ELSE /\ currentLine' = <<>>
                  /\ <<"[">> \o section' \o <<"]">> = LineAt(index + 1)
                  /\ Holds(data', SectionOrDefault(section), KeyOf(currentLine), ValueOf(currentLine))
                  /\ SectionOrDefault(section') # SectionOrDefault(section) =>
                        /\ (section' \in DOMAIN data') <=> (section' \in DOMAIN data)
                        /\ section' \in DOMAIN data => data'[section'] = data[section']]_vars

\* A pending continuation was flushed by the header that follows it.
C8_Witness ==
    \E k \in DOMAIN writeCalls :
        /\ writeCalls[k].lineNum >= 1
        /\ writeCalls[k].lineNum < index
        /\ IsContinuedAt(writeCalls[k].lineNum)
        /\ IsHeaderAt(writeCalls[k].lineNum + 1)
        /\ section # writeCalls[k].section
        /\ Holds(data, SectionOrDefault(writeCalls[k].section), KeyOf(writeCalls[k].line), ValueOf(writeCalls[k].line))

\* The text of the continuation example: `a = 1 \` followed by `+ 2`.
ContinuationExample == <<"a", " ", "=", " ", "1", " ", "\\", "\n", "+", " ", "2">>

\* C4 as stated: the continuation example is stored as key `a` with the value
\* "1 + 2".
C4_ExampleValueSpaced ==
    (pc = "ready" /\ text = ContinuationExample) => get(data, <<"a">>) = <<"1", " ", "+", " ", "2">>

\* C4, amended: a data line ending in a backslash is joined with the data line
\* that follows it into one logical line, the backslash dropped, each part
\* trimmed and no separator inserted; the continuation example is stored as
\* key `a` with the single value "1+ 2".
C4_JoinedWithoutSeparator ==
    /\ (pc = "ready" /\ text = ContinuationExample) =>
          data = [s \in {<<"d", "e", "f", "a", "u", "l", "t">>} |-> [k \in {<<"a">>} |-> <<"1", "+", " ", "2">>]]
    /\ \A k \in DOMAIN writeCalls :
          LET n == writeCalls[k].lineNum
          IN (n >= 2 /\ IsContinuedAt(n - 1) /\ IsDataAt(n)) =>
                \E pre \in {SubSeq(writeCalls[k].line, 1, m) : m \in 0..Len(writeCalls[k].line)} :
                    writeCalls[k].line = pre \o BodyAt(n - 1) \o BodyAt(n)

\* The continuation example was parsed and its joined line stored.
C4_Witness ==
    /\ pc = "ready"
    /\ text = ContinuationExample
    /\ Len(writeCalls) = 1
    /\ get(data, <<"a">>) = <<"1", "+", " ", "2">>

====
